---- MODULE Spec2Model ----
(***************************************************************************)
(* A model of BytesPathfinder: the graph store (FBytesGraph), the indexed  *)
(* binary min-heap (FBytesPathfindingHeap), the single-source search       *)
(* (FindPathsToNodes), the point-to-point search (FindPath), and the two   *)
(* readers GetPath and GetNodesInRange.                                    *)
(*                                                                         *)
(* A pointer to an FBytesNode is the node's NodeID: every pointer the     *)
(* code handles points into Graph.Nodes, whose element i has NodeID i.     *)
(* Graph.Nodes and Graph.Edges are sequences; the element with id i is at  *)
(* position i + 1.                                                         *)
(***************************************************************************)
EXTENDS Integers, Sequences, FiniteSets, TLC

VARIABLES Nodes, Edges, Items, Size, resident, ret, calls, lastFP

vars == <<Nodes, Edges, Items, Size, resident, ret, calls, lastFP>>

(***************************************************************************)
(* Bounds of the model.                                                    *)
(***************************************************************************)
MaxNodes == 3
MaxWeight == 2
MaxCalls == 2
MaxBudget == 2
HeapCapacity == 4
MaxHeapOps == 6
MaxGCost == 2
MaxHCost == 1
MaxEdits == 5

(***************************************************************************)
(* Program constants.                                                      *)
(***************************************************************************)
INITIAL_DISTANCE == 2000000
NoParent == -1
NullPtr == -1
Indeterminate == -7

\* C++ integer division truncates toward zero.
CDiv(a, b) == IF a >= 0 THEN a \div b ELSE 0 - ((0 - a) \div b)

\* FMath::FloorToInt32 of a square root of a non-negative integer.
FloorSqrt(n) == CHOOSE r \in 0..n : r * r <= n /\ (r + 1) * (r + 1) > n

(***************************************************************************)
(* FBytesNode.                                                             *)
(***************************************************************************)
\* A default-constructed FBytesNode: Location2D and HeapIndex have no
\* initializer.  Location2D is passed in as the value the storage happens
\* to hold; HeapIndex is marked Indeterminate and reading it is undefined.
FBytesNode(loc) ==
    [NodeID |-> -1, ParentID |-> NoParent, GCost |-> 0, HCost |-> 0,
     Location2D |-> loc, HeapIndex |-> Indeterminate]

FCost(node) == node.GCost + node.HCost

NodeAt(nodes, id) == nodes[id + 1]

IsValidIndex(seq, i) == i >= 0 /\ i < Len(seq)

(***************************************************************************)
(* FBytesPathfindingHeap.  A heap value is a record                         *)
(*   Nodes  : the graph nodes the heap points into (HeapIndex lives there) *)
(*   Items  : the backing vector, Items[i + 1] is slot i                    *)
(*   Size   : the number of occupied slots                                  *)
(*   First  : the node returned by the last RemoveFirst                     *)
(*   status : "ok", or how the run left defined behaviour:                  *)
(*            "overflow" (SortUp recursing forever), "ub" (access outside   *)
(*            the vector, null or indeterminate read)                       *)
(* and two fields the searches keep as a history of their run:              *)
(*   Removed : the nodes RemoveFirst has returned, in order                 *)
(*   breach  : the calls made outside what the heap asks of its caller      *)
(***************************************************************************)
NewHeap(nodes, Capacity) ==
    [Nodes |-> nodes, Items |-> [i \in 1..Capacity |-> NullPtr], Size |-> 0,
     First |-> NullPtr, status |-> "ok", Removed |-> <<>>, breach |-> {}]

GetParent(Index) == CDiv(Index - 1, 2)
GetLeftChild(Index) == Index * 2 + 1
GetRightChild(Index) == Index * 2 + 2

\* A variant with the comparisons turned round.
HigherPriority_Reversed(a, b) ==
    FCost(a) > FCost(b) \/ (FCost(a) = FCost(b) /\ a.HCost > b.HCost)

\* The order of the heap: a before b.
HigherPriority(a, b) ==
    FCost(a) < FCost(b) \/ (FCost(a) = FCost(b) /\ a.HCost < b.HCost)

\* A variant that exchanges the slots and leaves the HeapIndex fields.
Swap_ItemsOnly(g, X, Y) ==
    [g EXCEPT !.Items = [g.Items EXCEPT
                           ![NodeAt(g.Nodes, X).HeapIndex + 1] = Y,
                           ![NodeAt(g.Nodes, Y).HeapIndex + 1] = X]]

\* The two slots are written one after the other, then the two HeapIndex
\* fields, each from the value read before the exchange.
Swap(g, X, Y) ==
    [g EXCEPT !.Items = [g.Items EXCEPT
                           ![NodeAt(g.Nodes, X).HeapIndex + 1] = Y,
                           ![NodeAt(g.Nodes, Y).HeapIndex + 1] = X],
              !.Nodes = [g.Nodes EXCEPT
                           ![X + 1].HeapIndex = NodeAt(g.Nodes, Y).HeapIndex,
                           ![Y + 1].HeapIndex = NodeAt(g.Nodes, X).HeapIndex]]

RECURSIVE SortUp(_, _)
SortUp(g, Node) ==
    LET hi == NodeAt(g.Nodes, Node).HeapIndex
    IN IF hi = Indeterminate \/ ~IsValidIndex(g.Items, hi)
       THEN [g EXCEPT !.status = "ub"]
       ELSE LET Parent == g.Items[GetParent(hi) + 1]
            IN IF Parent = NullPtr
               THEN [g EXCEPT !.status = "ub"]
               ELSE IF HigherPriority(NodeAt(g.Nodes, Node), NodeAt(g.Nodes, Parent))
                    THEN IF Swap(g, Parent, Node) = g
                         THEN [g EXCEPT !.status = "overflow"]
                         ELSE SortUp(Swap(g, Parent, Node), Node)
                    ELSE g

\* A variant that never moves the node down.
SortDown_Stay(g, Node) == g

RECURSIVE SortDown(_, _)
SortDown(g, Node) ==
    LET hi == NodeAt(g.Nodes, Node).HeapIndex
        LIndex == GetLeftChild(hi)
        RIndex == GetRightChild(hi)
    IN IF LIndex < g.Size
       THEN LET L == NodeAt(g.Nodes, g.Items[LIndex + 1])
                SwapIndex ==
                    IF RIndex < g.Size
                    THEN LET R == NodeAt(g.Nodes, g.Items[RIndex + 1])
                         IN IF FCost(L) > FCost(R)
                               \/ (FCost(L) = FCost(R) /\ L.HCost > R.HCost)
                            THEN RIndex ELSE LIndex
                    ELSE LIndex
                ItemToSwap == g.Items[SwapIndex + 1]
                N == NodeAt(g.Nodes, Node)
                S == NodeAt(g.Nodes, ItemToSwap)
            IN IF FCost(N) > FCost(S) \/ (FCost(N) = FCost(S) /\ N.HCost > S.HCost)
               THEN SortDown(Swap(g, Node, ItemToSwap), Node)
               ELSE g
       ELSE g

Add(g, Node) ==
    IF g.status # "ok" THEN g
    ELSE IF ~IsValidIndex(g.Items, g.Size) THEN [g EXCEPT !.status = "ub"]
    ELSE [SortUp([g EXCEPT !.Nodes[Node + 1].HeapIndex = g.Size,
                           !.Items[g.Size + 1] = Node], Node)
             EXCEPT !.Size = g.Size + 1]

RemoveFirst(g) ==
    IF g.status # "ok" THEN g
    ELSE IF g.Size < 1 \/ g.Items[1] = NullPtr THEN [g EXCEPT !.status = "ub"]
    ELSE LET First == g.Items[1]
             size1 == g.Size - 1
             moved == g.Items[size1 + 1]
         IN [SortDown([g EXCEPT !.Size = size1,
                                !.Items[1] = moved,
                                !.Nodes[moved + 1].HeapIndex = 0], moved)
                EXCEPT !.First = First]

\* A variant that leaves the node where it is.
UpdateItem_NoSort(g, Node) == g

UpdateItem(g, Node) ==
    IF g.status # "ok" THEN g ELSE SortUp(g, Node)

IsNotEmpty(g) == g.Size > 0

\* Contains walks the whole vector, not only the occupied slots.
Contains(g, Node) == \E i \in 1..Len(g.Items) : g.Items[i] = Node

\* Node is in one of the occupied slots.
Resident(g, Node) == \E i \in 1..g.Size : g.Items[i] = Node

(***************************************************************************)
(* FBytesGraph and its editing operations.  A graph is a record             *)
(* [Nodes, Edges]; Edges[i + 1] is the NeighbouringEdges array of node i.  *)
(***************************************************************************)
CreateGraph == [Nodes |-> <<>>, Edges |-> <<>>]

\* AddNode copies NewNode into Graph.Nodes before it assigns Location2D to
\* the local NewNode: the stored node keeps the location `stored` that the
\* default-constructed node held, whatever Location2D was passed.
AddNode(Graph, Location2D, stored) ==
    LET NewNode == [FBytesNode(stored) EXCEPT !.NodeID = Len(Graph.Nodes)]
    IN [Nodes |-> Append(Graph.Nodes, NewNode),
        Edges |-> Append(Graph.Edges, <<>>)]

HasEdgeTo(edges, id) == \E i \in 1..Len(edges) : edges[i].NodeID = id

SetWeights(edges, id, Weight) ==
    [i \in 1..Len(edges) |->
        IF edges[i].NodeID = id THEN [edges[i] EXCEPT !.Weight = Weight]
        ELSE edges[i]]

\* What AddNode returns: NewNode.NodeID, the node count before the call.
AddNode_Return(Graph) == Len(Graph.Nodes)

\* A variant that writes the list of NodeAID only.
AddOrSetEdge_OneWay(Graph, NodeAID, NodeBID, Weight) ==
    IF ~IsValidIndex(Graph.Nodes, NodeAID) \/ ~IsValidIndex(Graph.Nodes, NodeBID)
    THEN Graph
    ELSE IF HasEdgeTo(Graph.Edges[NodeAID + 1], NodeBID)
    THEN [Graph EXCEPT !.Edges[NodeAID + 1] = SetWeights(@, NodeBID, Weight)]
    ELSE [Graph EXCEPT !.Edges[NodeAID + 1] =
                          Append(@, [NodeID |-> NodeBID, Weight |-> Weight])]

AddOrSetEdge(Graph, NodeAID, NodeBID, Weight) ==
    IF ~IsValidIndex(Graph.Nodes, NodeAID) \/ ~IsValidIndex(Graph.Nodes, NodeBID)
    THEN Graph
    ELSE IF HasEdgeTo(Graph.Edges[NodeAID + 1], NodeBID)
    THEN LET e1 == [Graph.Edges EXCEPT
                      ![NodeAID + 1] = SetWeights(@, NodeBID, Weight)]
             e2 == [e1 EXCEPT ![NodeBID + 1] = SetWeights(@, NodeAID, Weight)]
         IN [Graph EXCEPT !.Edges = e2]
    ELSE LET EdgeAB == [NodeID |-> NodeBID, Weight |-> Weight]
             EdgeBA == [NodeID |-> NodeAID, Weight |-> Weight]
             e1 == [Graph.Edges EXCEPT ![NodeAID + 1] = Append(@, EdgeAB)]
             e2 == [e1 EXCEPT ![NodeBID + 1] = Append(@, EdgeBA)]
         IN [Graph EXCEPT !.Edges = e2]

(***************************************************************************)
(* The searches.                                                           *)
(***************************************************************************)
\* A variant that resets the costs and leaves ParentID as it is.
InitNodes_KeepParent(nodes) ==
    [i \in 1..Len(nodes) |->
        [nodes[i] EXCEPT !.GCost = INITIAL_DISTANCE, !.HCost = 0]]

\* A variant that resets nothing.
InitNodes_NoReset(nodes) == nodes

InitNodes(nodes) ==
    [i \in 1..Len(nodes) |->
        [nodes[i] EXCEPT !.GCost = INITIAL_DISTANCE, !.HCost = 0,
                         !.ParentID = NoParent]]

CalcHeuristicDistance(nodes, StartID, TargetID) ==
    LET A == NodeAt(nodes, StartID).Location2D
        B == NodeAt(nodes, TargetID).Location2D
    IN FloorSqrt((A[1] - B[1]) * (A[1] - B[1]) + (A[2] - B[2]) * (A[2] - B[2]))

\* The body of the for loop of FindPathsToNodes over the edges of the
\* extracted node, from edge i on.
RECURSIVE RelaxEdges(_, _, _, _)
RelaxEdges(g, edges, Node, i) ==
    IF g.status # "ok" \/ i > Len(edges[Node + 1]) THEN g
    ELSE LET NeighbourEdge == edges[Node + 1][i]
             Distance == NodeAt(g.Nodes, Node).GCost + NeighbourEdge.Weight
         IN IF Distance < NodeAt(g.Nodes, NeighbourEdge.NodeID).GCost
            THEN LET g1 == [g EXCEPT
                              !.Nodes[NeighbourEdge.NodeID + 1].GCost = Distance,
                              !.Nodes[NeighbourEdge.NodeID + 1].ParentID = Node,
                              !.breach = @ \cup
                                  IF Resident(g, NeighbourEdge.NodeID) THEN {}
                                  ELSE {"UpdateItem of a node that is not resident"}]
                 IN RelaxEdges(UpdateItem(g1, NeighbourEdge.NodeID), edges, Node, i + 1)
            ELSE RelaxEdges(g, edges, Node, i + 1)

\* The for loop of FindPathsToNodes over the edges of the node that
\* RemoveFirst has just returned in g.
RelaxFirst(g, edges) ==
    RelaxEdges([g EXCEPT !.Removed = Append(@, g.First)], edges, g.First, 1)

\* The while loop of FindPathsToNodes.
RECURSIVE UnvisitedLoop(_, _)
UnvisitedLoop(g, edges) ==
    IF g.status # "ok" \/ ~IsNotEmpty(g) THEN g
    ELSE UnvisitedLoop(RelaxFirst(RemoveFirst(g), edges), edges)

RECURSIVE AddAll(_, _)
AddAll(g, i) ==
    IF i >= Len(g.Nodes) THEN g ELSE AddAll(Add(g, i), i + 1)

\* FindPathsToNodes: the heap record it ends with; its Nodes are Graph.Nodes
\* on return.  There is no InitNodes call here.
FindPathsToNodes(Graph, StartID) ==
    LET nodes1 == [Graph.Nodes EXCEPT ![StartID + 1].GCost = 0]
        Unvisited == NewHeap(nodes1, Len(Graph.Nodes))
    IN UnvisitedLoop(AddAll(Unvisited, 0), Graph.Edges)

\* What the call FindPath is about to make on the open set g for Neighbour,
\* whose costs it sets to GCost and HCost, does outside what the heap asks:
\* UpdateItem wants a resident node whose key did not go up, Add a node
\* that is not resident and was not in the heap before, and a free slot.
OpenSetBreach(g, Neighbour, GCost, HCost) ==
    IF Contains(g, Neighbour)
    THEN (IF Resident(g, Neighbour) THEN {}
          ELSE {"UpdateItem of a node that is not resident"})
         \cup
         (IF Resident(g, Neighbour)
             /\ HigherPriority(NodeAt(g.Nodes, Neighbour),
                               [GCost |-> GCost, HCost |-> HCost])
          THEN {"UpdateItem after the key went up"} ELSE {})
    ELSE (IF g.Size >= Len(g.Items) THEN {"Add to a full heap"} ELSE {})
         \cup
         (IF \E i \in 1..Len(g.Removed) : g.Removed[i] = Neighbour
          THEN {"Add of a node a second time"} ELSE {})

\* The body of the for loop of FindPath over the edges of CurrentNode, from
\* edge i on.  c is the search record: the open set g, ClosedSet, found.
RECURSIVE ExpandEdges(_, _, _, _, _)
ExpandEdges(c, edges, CurrentNode, TargetID, i) ==
    IF c.g.status # "ok" \/ i > Len(edges[CurrentNode + 1]) THEN c
    ELSE LET Edge == edges[CurrentNode + 1][i]
             Neighbour == Edge.NodeID
             MovementCost == NodeAt(c.g.Nodes, CurrentNode).GCost + Edge.Weight
         IN IF Neighbour \in c.ClosedSet
            THEN ExpandEdges(c, edges, CurrentNode, TargetID, i + 1)
            ELSE IF Contains(c.g, Neighbour)
                    /\ NodeAt(c.g.Nodes, Neighbour).GCost < MovementCost
            THEN ExpandEdges(c, edges, CurrentNode, TargetID, i + 1)
            ELSE LET g1 == [c.g EXCEPT
                              !.Nodes[Neighbour + 1].ParentID = CurrentNode,
                              !.Nodes[Neighbour + 1].GCost = MovementCost,
                              !.Nodes[Neighbour + 1].HCost =
                                  CalcHeuristicDistance(c.g.Nodes, Neighbour, TargetID),
                              !.breach = @ \cup
                                  OpenSetBreach(c.g, Neighbour, MovementCost,
                                      CalcHeuristicDistance(c.g.Nodes, Neighbour,
                                                            TargetID))]
                 IN ExpandEdges([c EXCEPT !.g = IF Contains(g1, Neighbour)
                                                THEN UpdateItem(g1, Neighbour)
                                                ELSE Add(g1, Neighbour)],
                                edges, CurrentNode, TargetID, i + 1)

RECURSIVE OpenSetLoop(_, _, _)

\* One pass of the while loop of FindPath after its RemoveFirst, whose
\* result is g1: CurrentNode joins ClosedSet, the search ends when it is
\* the target, and its edges are expanded otherwise.
VisitCurrentNode(c, g1, edges, TargetID) ==
    LET CurrentNode == g1.First
        c1 == [c EXCEPT !.g = [g1 EXCEPT
                                 !.Removed = Append(@, CurrentNode),
                                 !.breach = @ \cup
                                     IF \E n \in c.ClosedSet \cup {CurrentNode} :
                                            Resident(g1, n)
                                     THEN {"open and closed"} ELSE {}],
                      !.ClosedSet = @ \cup {CurrentNode}]
    IN IF g1.status # "ok" THEN c1
       ELSE IF CurrentNode = TargetID THEN [c1 EXCEPT !.found = TRUE]
       ELSE OpenSetLoop(ExpandEdges(c1, edges, CurrentNode, TargetID, 1),
                        edges, TargetID)

\* The while loop of FindPath.
OpenSetLoop(c, edges, TargetID) ==
    IF c.g.status # "ok" \/ ~IsNotEmpty(c.g) THEN c
    ELSE VisitCurrentNode(c, RemoveFirst(c.g), edges, TargetID)

\* FindPath: the search record it ends with; c.g.Nodes are Graph.Nodes on
\* return, c.found tells which of the two log lines was written.
FindPath(Graph, StartID, TargetID) ==
    LET nodes0 == InitNodes(Graph.Nodes)
        nodes1 == [nodes0 EXCEPT
                     ![StartID + 1].GCost = 0,
                     ![StartID + 1].HCost =
                         CalcHeuristicDistance(nodes0, StartID, TargetID)]
    IN OpenSetLoop([g |-> Add(NewHeap(nodes1, Len(Graph.Nodes)), StartID),
                    ClosedSet |-> {}, found |-> FALSE],
                   Graph.Edges, TargetID)

RECURSIVE GetNodesInRangeFrom(_, _, _)
GetNodesInRangeFrom(nodes, MaxTravelCost, i) ==
    IF i > Len(nodes) THEN <<>>
    ELSE IF nodes[i].GCost <= MaxTravelCost
    THEN <<nodes[i].NodeID>> \o GetNodesInRangeFrom(nodes, MaxTravelCost, i + 1)
    ELSE GetNodesInRangeFrom(nodes, MaxTravelCost, i + 1)

\* A variant that starts the loop at the second node.
GetNodesInRange_SkipFirst(nodes, MaxTravelCost) ==
    GetNodesInRangeFrom(nodes, MaxTravelCost, 2)

GetNodesInRange(nodes, MaxTravelCost) == GetNodesInRangeFrom(nodes, MaxTravelCost, 1)

\* A variant that leaves the sequence in the order it was collected.
Reverse_Identity(seq) == seq

Reverse(seq) == [i \in 1..Len(seq) |-> seq[Len(seq) + 1 - i]]

\* The retrace loop of GetPath.  Path is collected target first.  Reading
\* Graph.Nodes at an index that is not valid is undefined: `stray` is what
\* such a read yields, -2 standing for the run ending there (the range
\* check of the array failing).  A walk that comes back to an id already
\* collected never ends.
RECURSIVE Retrace(_, _, _, _, _)
Retrace(nodes, StartNodeID, CurrentNodeID, Path, stray) ==
    IF CurrentNodeID = StartNodeID THEN [Path |-> Path, status |-> "ok", ub |-> FALSE]
    ELSE IF \E i \in 1..Len(Path) : Path[i] = CurrentNodeID
    THEN [Path |-> Path, status |-> "hang", ub |-> ~IsValidIndex(nodes, CurrentNodeID)]
    ELSE IF ~IsValidIndex(nodes, CurrentNodeID)
    THEN IF stray = -2
         THEN [Path |-> Append(Path, CurrentNodeID), status |-> "crash", ub |-> TRUE]
         ELSE LET r == Retrace(nodes, StartNodeID, stray,
                               Append(Path, CurrentNodeID), stray)
              IN [r EXCEPT !.ub = TRUE]
    ELSE Retrace(nodes, StartNodeID, NodeAt(nodes, CurrentNodeID).ParentID,
                 Append(Path, CurrentNodeID), stray)

\* The recalculation step of GetPath: the search record of FindPath when
\* bRecalculate is set, the graph as it is otherwise.
Recalculate(Graph, StartNodeID, TargetNodeID, bRecalculate) ==
    IF bRecalculate THEN FindPath(Graph, StartNodeID, TargetNodeID)
    ELSE [g |-> [Nodes |-> Graph.Nodes, status |-> "ok"], found |-> FALSE]

\* The retrace and return of GetPath on the search record c.
RetracePath(c, StartNodeID, TargetNodeID, bRecalculate, stray) ==
    LET r == Retrace(c.g.Nodes, StartNodeID, TargetNodeID, <<>>, stray)
    IN IF c.g.status # "ok"
       THEN [Path |-> <<>>, Nodes |-> c.g.Nodes, status |-> c.g.status,
             ub |-> FALSE, searched |-> TRUE, found |-> c.found]
       ELSE [Path |-> Reverse(r.Path), Nodes |-> c.g.Nodes, status |-> r.status,
             ub |-> r.ub, searched |-> bRecalculate, found |-> c.found]

\* A variant that runs A* before it looks at the target's ParentID.
GetPath_RecalculateFirst(Graph, StartNodeID, TargetNodeID, bRecalculate, stray) ==
    IF ~IsValidIndex(Graph.Nodes, StartNodeID) \/ ~IsValidIndex(Graph.Nodes, TargetNodeID)
    THEN [Path |-> <<>>, Nodes |-> Graph.Nodes, status |-> "ok", ub |-> FALSE,
          searched |-> FALSE, found |-> FALSE]
    ELSE IF NodeAt(Recalculate(Graph, StartNodeID, TargetNodeID,
                               bRecalculate).g.Nodes, TargetNodeID).ParentID = -1
    THEN [Path |-> <<>>,
          Nodes |-> Recalculate(Graph, StartNodeID, TargetNodeID,
                                bRecalculate).g.Nodes,
          status |-> "ok", ub |-> FALSE, searched |-> bRecalculate,
          found |-> FALSE]
    ELSE RetracePath(Recalculate(Graph, StartNodeID, TargetNodeID, bRecalculate),
                     StartNodeID, TargetNodeID, bRecalculate, stray)

\* GetPath: the path returned, the nodes as the call leaves them, how the
\* call ended, and whether A* was run.
GetPath(Graph, StartNodeID, TargetNodeID, bRecalculate, stray) ==
    IF ~IsValidIndex(Graph.Nodes, StartNodeID) \/ ~IsValidIndex(Graph.Nodes, TargetNodeID)
    THEN [Path |-> <<>>, Nodes |-> Graph.Nodes, status |-> "ok", ub |-> FALSE,
          searched |-> FALSE, found |-> FALSE]
    ELSE IF NodeAt(Graph.Nodes, TargetNodeID).ParentID = -1
    THEN [Path |-> <<>>, Nodes |-> Graph.Nodes, status |-> "ok", ub |-> FALSE,
          searched |-> FALSE, found |-> FALSE]
    ELSE RetracePath(Recalculate(Graph, StartNodeID, TargetNodeID, bRecalculate),
                     StartNodeID, TargetNodeID, bRecalculate, stray)

(***************************************************************************)
(* The heap on its own: a pool of HeapCapacity nodes and one heap of that  *)
(* capacity.  The caller writes a node's costs and then calls Add, lowers  *)
(* a resident node's costs and then calls UpdateItem, or calls RemoveFirst *)
(* on a heap that is not empty.                                            *)
(***************************************************************************)
NoRet == [op |-> "none", status |-> "ok"]

KeyOf(node) == <<FCost(node), node.HCost>>

\* k1 strictly before k2 in the order (FCost ascending, then HCost ascending).
KeyLess(k1, k2) == k1[1] < k2[1] \/ (k1[1] = k2[1] /\ k1[2] < k2[2])

HeapOf(nodes, items, size) ==
    [Nodes |-> nodes, Items |-> items, Size |-> size, First |-> NullPtr,
     status |-> "ok"]

HeapInit ==
    /\ Nodes = [i \in 1..HeapCapacity |->
                  [FBytesNode(<<0, 0>>) EXCEPT !.NodeID = i - 1]]
    /\ Edges = [i \in 1..HeapCapacity |-> <<>>]
    /\ Items = NewHeap(Nodes, HeapCapacity).Items
    /\ Size = 0
    /\ resident = {}
    /\ ret = NoRet
    /\ calls = 0
    /\ lastFP = NoRet

HeapAdd(n, gc, hc) ==
    /\ calls < MaxHeapOps
    /\ n \notin resident
    /\ Size < Len(Items)
    /\ \E g \in {Add(HeapOf([Nodes EXCEPT ![n + 1].GCost = gc, ![n + 1].HCost = hc],
                              Items, Size), n)} :
          /\ Nodes' = g.Nodes
          /\ Items' = g.Items
          /\ Size' = g.Size
          /\ resident' = resident \cup {n}
          /\ ret' = [op |-> "Add", Node |-> n, status |-> g.status]
    /\ calls' = calls + 1
    /\ UNCHANGED <<Edges, lastFP>>

HeapRemoveFirst ==
    /\ calls < MaxHeapOps
    /\ Size > 0
    /\ \E g \in {RemoveFirst(HeapOf(Nodes, Items, Size))} :
          /\ Nodes' = g.Nodes
          /\ Items' = g.Items
          /\ Size' = g.Size
          /\ resident' = resident \ {g.First}
          /\ ret' = [op |-> "RemoveFirst", First |-> g.First, was |-> resident,
                     prev |-> IF ret.op = "RemoveFirst"
                              THEN <<KeyOf(NodeAt(Nodes, ret.First))>> ELSE <<>>,
                     status |-> g.status]
    /\ calls' = calls + 1
    /\ UNCHANGED <<Edges, lastFP>>

HeapDecrease(n, gc, hc) ==
    /\ calls < MaxHeapOps
    /\ n \in resident
    /\ KeyLess(<<gc + hc, hc>>, KeyOf(NodeAt(Nodes, n)))
    /\ \E g \in {UpdateItem(HeapOf([Nodes EXCEPT ![n + 1].GCost = gc,
                                                  ![n + 1].HCost = hc],
                                     Items, Size), n)} :
          /\ Nodes' = g.Nodes
          /\ Items' = g.Items
          /\ Size' = g.Size
          /\ ret' = [op |-> "UpdateItem", Node |-> n,
                     from |-> NodeAt(Nodes, n).HeapIndex, status |-> g.status]
    /\ calls' = calls + 1
    /\ UNCHANGED <<Edges, resident, lastFP>>

HeapAddNext ==
    \E n \in 0..(HeapCapacity - 1), gc \in 0..MaxGCost, hc \in 0..MaxHCost :
        HeapAdd(n, gc, hc)

HeapDecreaseNext ==
    \E n \in 0..(HeapCapacity - 1), gc \in 0..MaxGCost, hc \in 0..MaxHCost :
        HeapDecrease(n, gc, hc)

HeapNext == HeapAddNext \/ HeapRemoveFirst

HeapUpdNext == HeapAddNext \/ HeapRemoveFirst \/ HeapDecreaseNext

\* Add and RemoveFirst only: no key of a resident node ever changes.
SpecHeap == HeapInit /\ [][HeapNext]_vars

\* Add, RemoveFirst, and key decreases followed by UpdateItem.
SpecHeapUpd == HeapInit /\ [][HeapUpdNext]_vars

\* The residents of the heap all have keys not before the key of node f.
IsMinimalAmong(f, rs) ==
    \A r \in rs : ~HigherPriority(NodeAt(Nodes, r), NodeAt(Nodes, f))

\* C8: on a heap that only sees Add and RemoveFirst, every RemoveFirst
\* returns a node that was resident and is minimal among the residents
\* under (FCost, HCost), and a RemoveFirst that directly follows another
\* one returns a key that is not before the preceding key.
C8_RemoveFirstMinimal ==
    ret.op = "RemoveFirst" =>
        /\ ret.status = "ok"
        /\ ret.First \in ret.was
        /\ resident = ret.was \ {ret.First}
        /\ IsMinimalAmong(ret.First, ret.was)
        /\ \A i \in 1..Len(ret.prev) :
              ~KeyLess(KeyOf(NodeAt(Nodes, ret.First)), ret.prev[i])

\* Two successive extractions from a heap that held at least three nodes
\* with different keys.
C8_Witness ==
    /\ ret.op = "RemoveFirst"
    /\ Len(ret.prev) = 1
    /\ Cardinality(ret.was) >= 3
    /\ KeyLess(ret.prev[1], KeyOf(NodeAt(Nodes, ret.First)))
    /\ \E r \in resident :
          KeyLess(KeyOf(NodeAt(Nodes, ret.First)), KeyOf(NodeAt(Nodes, r)))

\* Every occupied slot but the root holds a node that is not before the
\* node in its parent slot.
HeapOrdered ==
    \A i \in 1..(Size - 1) :
        ~HigherPriority(NodeAt(Nodes, Items[i + 1]),
                        NodeAt(Nodes, Items[GetParent(i) + 1]))

\* C9: when resident keys are only lowered and UpdateItem follows each
\* lowering, the heap order holds again after the call, and every later
\* RemoveFirst returns a minimal resident, successive ones in
\* non-decreasing (FCost, HCost) order.
C9_UpdateItemRestoresOrder ==
    /\ ret.op = "UpdateItem" => ret.status = "ok" /\ HeapOrdered
    /\ ret.op = "RemoveFirst" =>
          /\ ret.status = "ok"
          /\ IsMinimalAmong(ret.First, ret.was)
          /\ \A i \in 1..Len(ret.prev) :
                ~KeyLess(KeyOf(NodeAt(Nodes, ret.First)), ret.prev[i])

\* UpdateItem has moved a lowered node from the bottom level to the root.
C9_Witness ==
    /\ ret.op = "UpdateItem"
    /\ ret.from = 3
    /\ NodeAt(Nodes, ret.Node).HeapIndex = 0
    /\ Size = 4

(***************************************************************************)
(* The pathfinder as its callers see it: a graph built with AddNode and    *)
(* AddOrSetEdge, then any sequence of FindPath, FindPathsToNodes,          *)
(* GetNodesInRange and GetPath calls on it.                                *)
(***************************************************************************)
\* What the Location2D of a default-constructed node may hold.
Positions == {<<0, 0>>, <<1, 1>>}

\* The mark of a pair that gets no edge.
NoEdge == 0 - 1

PairsOf(n) == {p \in (0..(n - 1)) \X (0..(n - 1)) : p[1] < p[2]}

RECURSIVE AddNodes(_, _, _)
AddNodes(Graph, locs, i) ==
    IF i > Len(locs) THEN Graph
    ELSE AddNodes(AddNode(Graph, locs[i], locs[i]), locs, i + 1)

\* AddOrSetEdge for the pairs a < b in the order (0,1), (0,2), (1,2), ...
RECURSIVE AddEdges(_, _, _, _)
AddEdges(Graph, w, a, b) ==
    IF b >= Len(Graph.Nodes) THEN Graph
    ELSE IF a >= b THEN AddEdges(Graph, w, 0, b + 1)
    ELSE IF w[<<a, b>>] = NoEdge THEN AddEdges(Graph, w, a + 1, b)
    ELSE AddEdges(AddOrSetEdge(Graph, a, b, w[<<a, b>>]), w, a + 1, b)

BuildGraph(locs, w) == AddEdges(AddNodes(CreateGraph, locs, 1), w, 0, 1)

TheGraph == [Nodes |-> Nodes, Edges |-> Edges]

NodeIDs == 0..(Len(Nodes) - 1)

\* Nodes 0..n-1 in a line, joined by edges of weight 1.
LineWeights(n) ==
    [p \in PairsOf(n) |-> IF p[2] = p[1] + 1 THEN 1 ELSE NoEdge]

\* The stored locations of n nodes.  The heuristic reads only distances
\* between locations, so the first node is kept at <<0, 0>>.
Locations(n) == {l \in [1..n -> Positions] : l[1] = <<0, 0>>}

\* The graphs searched: every graph of up to MaxNodes nodes with any subset
\* of the edges a < b and weights 0..MaxWeight, and the line of MaxNodes + 1
\* nodes with unit weights; the nodes are as AddNode leaves them.
Graphs ==
    UNION {{BuildGraph(locs, w) :
              locs \in Locations(n),
              w \in IF n <= MaxNodes THEN [PairsOf(n) -> NoEdge..MaxWeight]
                    ELSE {LineWeights(n)}} : n \in 1..(MaxNodes + 1)}

Init ==
    /\ \E G \in Graphs : Nodes = G.Nodes /\ Edges = G.Edges
    /\ Items = <<>>
    /\ Size = 0
    /\ resident = {}
    /\ ret = NoRet
    /\ calls = 0
    /\ lastFP = NoRet

\* The fields a search leaves for its readers.
Results(nodes) ==
    [i \in 1..Len(nodes) |-> <<nodes[i].ParentID, nodes[i].GCost>>]

\* The nodes as AddNode stored them, before any search wrote to them.
AsBuilt(nodes) ==
    [i \in 1..Len(nodes) |->
        [FBytesNode(nodes[i].Location2D) EXCEPT !.NodeID = nodes[i].NodeID]]

DoFindPath(StartID, TargetID) ==
    /\ calls < MaxCalls
    /\ \E c \in {FindPath(TheGraph, StartID, TargetID)} :
          /\ Nodes' = c.g.Nodes
          /\ ret' = [op |-> "FindPath", StartID |-> StartID, TargetID |-> TargetID,
                     found |-> c.found, status |-> c.g.status, Size |-> c.g.Size,
                     Removed |-> c.g.Removed, breach |-> c.g.breach,
                     dirty |-> Nodes # AsBuilt(Nodes),
                     parentWas |-> NodeAt(Nodes, TargetID).ParentID,
                     prev |-> IF lastFP.op = "FindPath" /\ lastFP.StartID = StartID
                                 /\ lastFP.TargetID = TargetID
                              THEN <<Results(Nodes)>> ELSE <<>>]
          /\ lastFP' = [op |-> "FindPath", StartID |-> StartID,
                        TargetID |-> TargetID, found |-> c.found,
                        status |-> c.g.status]
    /\ calls' = calls + 1
    /\ UNCHANGED <<Edges, Items, Size, resident>>

DoFindPathsToNodes(StartID) ==
    /\ calls < MaxCalls
    /\ \E g \in {FindPathsToNodes(TheGraph, StartID)} :
          /\ Nodes' = g.Nodes
          /\ ret' = [op |-> "FindPathsToNodes", StartID |-> StartID,
                     status |-> g.status, Size |-> g.Size,
                     Removed |-> g.Removed, breach |-> g.breach,
                     dirty |-> Nodes # AsBuilt(Nodes),
                     clean |-> Nodes = InitNodes(Nodes)]
          /\ lastFP' = [op |-> "FindPathsToNodes", StartID |-> StartID,
                        TargetID |-> -1, found |-> FALSE, status |-> g.status]
    /\ calls' = calls + 1
    /\ UNCHANGED <<Edges, Items, Size, resident>>

DoGetNodesInRange(MaxTravelCost) ==
    /\ ret' = [op |-> "GetNodesInRange", MaxTravelCost |-> MaxTravelCost,
               Result |-> GetNodesInRange(Nodes, MaxTravelCost), status |-> "ok",
               before |-> Nodes]
    /\ UNCHANGED <<Nodes, Edges, Items, Size, resident, calls, lastFP>>

DoGetPath(StartNodeID, TargetNodeID, bRecalculate, stray) ==
    /\ bRecalculate => calls < MaxCalls
    /\ \E r \in {GetPath(TheGraph, StartNodeID, TargetNodeID, bRecalculate, stray)} :
          /\ Nodes' = r.Nodes
          /\ ret' = [op |-> "GetPath", StartID |-> StartNodeID,
                     TargetID |-> TargetNodeID, bRecalculate |-> bRecalculate,
                     Path |-> r.Path, status |-> r.status, ub |-> r.ub,
                     searched |-> r.searched, before |-> Nodes]
          /\ lastFP' = IF r.searched
                       THEN [op |-> "FindPath", StartID |-> StartNodeID,
                             TargetID |-> TargetNodeID, found |-> r.found,
                             status |-> r.status]
                       ELSE lastFP
          /\ calls' = IF r.searched THEN calls + 1 ELSE calls
    /\ UNCHANGED <<Edges, Items, Size, resident>>

\* A call that crashed or hangs never returns: no call follows it.
\* GetNodesInRange and GetPath come last in a behaviour: without
\* recalculation they leave the graph as it was, with it they leave what
\* FindPath leaves, so the calls that could follow them start from states
\* that are reached without them.
CanCall == ret.status = "ok" /\ ret.op \in {"none", "FindPath", "FindPathsToNodes"}

CallFindPath ==
    CanCall /\ \E s \in NodeIDs, t \in NodeIDs : DoFindPath(s, t)

CallFindPathsToNodes ==
    CanCall /\ \E s \in NodeIDs : DoFindPathsToNodes(s)

CallGetNodesInRange ==
    CanCall /\ \E m \in (0..MaxBudget) \cup {INITIAL_DISTANCE} : DoGetNodesInRange(m)

\* The ids GetPath is called with: every valid pair, and three calls with
\* an id outside the node range.
GetPathArgs ==
    (NodeIDs \X NodeIDs) \cup {<<-1, 0>>, <<0, Len(Nodes)>>, <<Len(Nodes), -1>>}

\* What a read outside Graph.Nodes may yield, where the call makes one:
\* -2 (the run ends there) or any ParentID value.
StrayValues(s, t, b) ==
    IF GetPath(TheGraph, s, t, b, -2).ub THEN -2..(Len(Nodes) - 1) ELSE {-2}

CallGetPath ==
    CanCall /\ \E a \in GetPathArgs, b \in BOOLEAN :
                  \E stray \in StrayValues(a[1], a[2], b) :
                      DoGetPath(a[1], a[2], b, stray)

Next == CallFindPath \/ CallFindPathsToNodes \/ CallGetNodesInRange \/ CallGetPath

Spec == Init /\ [][Next]_vars

\* The same graphs with every node's working fields at their sentinels:
\* GCost = INITIAL_DISTANCE, HCost = 0, ParentID = -1.
InitUnreached ==
    /\ \E G \in Graphs : Nodes = InitNodes(G.Nodes) /\ Edges = G.Edges
    /\ Items = <<>>
    /\ Size = 0
    /\ resident = {}
    /\ ret = NoRet
    /\ calls = 0
    /\ lastFP = NoRet

SpecUnreached == InitUnreached /\ [][Next]_vars

(***************************************************************************)
(* Reference definitions for the properties: shortest distances computed  *)
(* by exhaustive relaxation over the edge lists, independent of the heap.  *)
(***************************************************************************)
MinOf(S) == CHOOSE x \in S : \A y \in S : x <= y

\* One round: every node takes the best of its value and its neighbours'
\* values plus the edge weight.  D[i] is the value of node i - 1.
RelaxAll(edges, D) ==
    [i \in 1..Len(edges) |->
        MinOf({D[i]} \cup
              {D[edges[i][k].NodeID + 1] + edges[i][k].Weight :
                  k \in {j \in 1..Len(edges[i]) :
                            D[edges[i][j].NodeID + 1] < INITIAL_DISTANCE}})]

RECURSIVE RelaxRounds(_, _, _)
RelaxRounds(edges, D, k) ==
    IF k = 0 THEN D ELSE RelaxRounds(edges, RelaxAll(edges, D), k - 1)

\* TrueDist(edges, s)[v + 1]: the least sum of weights over the paths from
\* s to v, INITIAL_DISTANCE when there is none.
TrueDist(edges, s) ==
    RelaxRounds(edges,
                [i \in 1..Len(edges) |-> IF i = s + 1 THEN 0 ELSE INITIAL_DISTANCE],
                Len(edges))

Reachable(edges, s, v) == TrueDist(edges, s)[v + 1] < INITIAL_DISTANCE

\* The weight of the edge from a to b in a's list, -1 when there is none.
EdgeWeight(edges, a, b) ==
    IF HasEdgeTo(edges[a + 1], b)
    THEN edges[a + 1][CHOOSE i \in 1..Len(edges[a + 1]) :
                          edges[a + 1][i].NodeID = b].Weight
    ELSE -1

\* The sum of the edge weights along the ParentID links from v back to s,
\* -1 when the links do not lead to s along edges within `fuel` steps.
RECURSIVE ChainCost(_, _, _, _, _)
ChainCost(nodes, edges, s, v, fuel) ==
    IF v = s THEN 0
    ELSE IF fuel = 0 \/ NodeAt(nodes, v).ParentID = NoParent THEN -1
    ELSE LET par == NodeAt(nodes, v).ParentID
             w == EdgeWeight(edges, par, v)
             c == ChainCost(nodes, edges, s, par, fuel - 1)
         IN IF w < 0 \/ c < 0 THEN -1 ELSE c + w

\* The sum of the edge weights along s followed by the ids of path, -1 when
\* two consecutive ids are not joined by an edge.
RECURSIVE PathCost(_, _, _, _)
PathCost(edges, from, path, i) ==
    IF i > Len(path) THEN 0
    ELSE IF ~IsValidIndex(edges, path[i]) THEN -1
    ELSE LET w == EdgeWeight(edges, from, path[i])
             c == PathCost(edges, path[i], path, i + 1)
         IN IF w < 0 \/ c < 0 THEN -1 ELSE c + w

\* The heuristic towards t never drops by more than the weight along an edge.
Consistent(nodes, edges, t) ==
    \A u \in 0..(Len(nodes) - 1) :
        \A k \in 1..Len(edges[u + 1]) :
            CalcHeuristicDistance(nodes, u, t)
                <= edges[u + 1][k].Weight
                   + CalcHeuristicDistance(nodes, edges[u + 1][k].NodeID, t)

\* C1: FindPathsToNodes started with every node at GCost = 2000000,
\* HCost = 0 and ParentID = -1 returns with the true shortest distance as
\* GCost of every node reachable from StartID and a ParentID chain from it
\* to StartID whose edge weights sum to that GCost, and leaves every
\* unreachable node at GCost = 2000000 and ParentID = -1.
C1_SingleSourceShortestPaths ==
    (ret.op = "FindPathsToNodes" /\ ret.clean) =>
        /\ ret.status = "ok"
        /\ \A v \in NodeIDs :
              LET d == TrueDist(Edges, ret.StartID)[v + 1]
              IN IF d < INITIAL_DISTANCE
                 THEN /\ NodeAt(Nodes, v).GCost = d
                      /\ ChainCost(Nodes, Edges, ret.StartID, v, Len(Nodes)) = d
                 ELSE /\ NodeAt(Nodes, v).GCost = INITIAL_DISTANCE
                      /\ NodeAt(Nodes, v).ParentID = NoParent

\* A run from the unreached state on three nodes where the direct edge to a
\* node is dearer than the way round, and on a graph with an unreachable
\* node.
C1_Witness ==
    /\ ret.op = "FindPathsToNodes" /\ ret.clean /\ ret.status = "ok"
    /\ \E v \in NodeIDs :
          /\ EdgeWeight(Edges, ret.StartID, v) > NodeAt(Nodes, v).GCost
          /\ NodeAt(Nodes, v).ParentID # ret.StartID
          /\ NodeAt(Nodes, v).GCost > 0

C1_WitnessUnreachable ==
    /\ ret.op = "FindPathsToNodes" /\ ret.clean /\ ret.status = "ok"
    /\ \E v \in NodeIDs : ~Reachable(Edges, ret.StartID, v)
    /\ \E v \in NodeIDs : NodeAt(Nodes, v).GCost = 2

SeqToSet(seq) == {seq[i] : i \in 1..Len(seq)}

\* C2: whatever working state the graph is in when FindPathsToNodes is
\* called, a following GetNodesInRange(MaxTravelCost) returns exactly the
\* nodes whose true shortest distance from StartID is <= MaxTravelCost.
C2_RangeAfterSingleSource ==
    (ret.op = "GetNodesInRange" /\ lastFP.op = "FindPathsToNodes"
        /\ lastFP.status = "ok") =>
        SeqToSet(ret.Result) =
            {v \in NodeIDs : TrueDist(Edges, lastFP.StartID)[v + 1] <= ret.MaxTravelCost}

\* C3: when FindPath extracts the target and the heuristic towards the
\* target is consistent on the graph, the GCost on the target is the true
\* shortest-path cost from StartID, whatever earlier searches left behind.
C3_AStarOptimal ==
    (ret.op = "FindPath" /\ ret.found
        /\ Consistent(Nodes, Edges, ret.TargetID)) =>
        /\ ret.status = "ok"
        /\ NodeAt(Nodes, ret.TargetID).GCost
              = TrueDist(Edges, ret.StartID)[ret.TargetID + 1]

\* A successful search on a graph an earlier search wrote to, with a
\* heuristic that is consistent and not zero at the start, where the direct
\* edge to the target is dearer than the way round.
C3_Witness ==
    /\ ret.op = "FindPath" /\ ret.found /\ ret.dirty
    /\ Consistent(Nodes, Edges, ret.TargetID)
    /\ NodeAt(Nodes, ret.StartID).HCost > 0
    /\ EdgeWeight(Edges, ret.StartID, ret.TargetID)
          > NodeAt(Nodes, ret.TargetID).GCost
    /\ NodeAt(Nodes, ret.TargetID).GCost > 0

\* C4: FindPath with an unreachable target ends with the open set empty and
\* the target's ParentID = -1, whatever ParentID the target held before;
\* with a reachable target other than the start it ends with the target's
\* ParentID different from -1.
C4_NoPathLeavesNoParent ==
    ret.op = "FindPath" =>
        /\ ret.status = "ok"
        /\ IF Reachable(Edges, ret.StartID, ret.TargetID)
           THEN ret.StartID # ret.TargetID =>
                    NodeAt(Nodes, ret.TargetID).ParentID # NoParent
           ELSE /\ ~ret.found
                /\ ret.Size = 0
                /\ NodeAt(Nodes, ret.TargetID).ParentID = NoParent

\* A search that found no path to a target on which an earlier search had
\* left a parent.
C4_Witness ==
    /\ ret.op = "FindPath" /\ ~ret.found /\ ret.Size = 0
    /\ ret.parentWas # NoParent
    /\ NodeAt(Nodes, ret.TargetID).ParentID = NoParent
    /\ ~Reachable(Edges, ret.StartID, ret.TargetID)

\* C5: after a successful FindPath(StartID, TargetID) with different ids,
\* GetPath(StartID, TargetID, false) returns a path whose first element is
\* a neighbour of StartID, whose consecutive elements are joined by edges,
\* whose last element is TargetID, and whose edge weights from StartID on
\* sum to the target's GCost.
C5_PathAfterFindPath ==
    (ret.op = "GetPath" /\ ~ret.bRecalculate
        /\ lastFP.op = "FindPath" /\ lastFP.found
        /\ lastFP.StartID = ret.StartID /\ lastFP.TargetID = ret.TargetID
        /\ ret.StartID # ret.TargetID) =>
        /\ ret.status = "ok"
        /\ Len(ret.Path) >= 1
        /\ ret.Path[Len(ret.Path)] = ret.TargetID
        /\ PathCost(Edges, ret.StartID, ret.Path, 1)
              = NodeAt(Nodes, ret.TargetID).GCost

\* The scenario of the line: nodes 0..3, unit weights, FindPath(0, 3), then
\* GetPath(0, 3, false) = [1, 2, 3].
C5_Witness ==
    /\ ret.op = "GetPath" /\ ~ret.bRecalculate
    /\ lastFP.op = "FindPath" /\ lastFP.found
    /\ lastFP.StartID = 0 /\ lastFP.TargetID = 3
    /\ ret.StartID = 0 /\ ret.TargetID = 3
    /\ Len(Nodes) = 4
    /\ ret.Path = <<1, 2, 3>>

\* C6: a GetPath call that returns never has StartNodeID in the returned
\* sequence, has TargetNodeID last when the sequence is not empty, and
\* returns the empty sequence when start and target are the same id.
C6_StartExcludedTargetLast ==
    (ret.op = "GetPath" /\ ret.status = "ok") =>
        /\ ret.StartID \notin SeqToSet(ret.Path)
        /\ ret.Path # <<>> => ret.Path[Len(ret.Path)] = ret.TargetID
        /\ ret.StartID = ret.TargetID => ret.Path = <<>>

\* A returned path of two or more ids read from the parents of a search
\* that started somewhere else.
C6_Witness ==
    /\ ret.op = "GetPath" /\ ret.status = "ok" /\ ~ret.ub
    /\ Len(ret.Path) >= 2
    /\ lastFP.StartID # ret.StartID

\* GetPath(s, s, true) on a node that holds a parent.
C6_WitnessSame ==
    /\ ret.op = "GetPath" /\ ret.status = "ok"
    /\ ret.StartID = ret.TargetID /\ ret.bRecalculate /\ ret.searched
    /\ ret.Path = <<>>

C10_FindPathIdempotent ==
    (ret.op = "FindPath" /\ ret.status = "ok") =>
        /\ \A i \in 1..Len(ret.prev) : Results(Nodes) = ret.prev[i]
        /\ Results(Nodes) =
              Results(FindPath([Nodes |-> AsBuilt(Nodes), Edges |-> Edges],
                               ret.StartID, ret.TargetID).g.Nodes)

\* The second of two successive runs with the same arguments that reach a
\* target two edges away.
C10_Witness ==
    /\ ret.op = "FindPath" /\ ret.found
    /\ Len(ret.prev) = 1
    /\ NodeAt(Nodes, ret.TargetID).ParentID \notin {NoParent, ret.StartID}

\* The ids in seq are in strictly ascending order.
Ascending(seq) == \A i \in 1..Len(seq), j \in 1..Len(seq) : i < j => seq[i] < seq[j]

C11_WitnessPartial ==
    /\ ret.op = "GetNodesInRange" /\ ret.MaxTravelCost = 1
    /\ Len(ret.Result) = 2
    /\ Len(Nodes) = 3
    /\ ret.Result[1] > 0

(***************************************************************************)
(* The graph under construction: CreateGraph, then any sequence of AddNode *)
(* and AddOrSetEdge calls, with ids inside and outside the node range.     *)
(***************************************************************************)
GraphInit ==
    /\ Nodes = CreateGraph.Nodes
    /\ Edges = CreateGraph.Edges
    /\ Items = <<>>
    /\ Size = 0
    /\ resident = {}
    /\ ret = NoRet
    /\ calls = 0
    /\ lastFP = NoRet

\* AddNode(Graph, Location2D); `stored` is what the Location2D of the
\* default-constructed NewNode holds when it is copied into Graph.Nodes.
GraphAddNode(Location2D, stored) ==
    /\ calls < MaxEdits
    /\ Len(Nodes) < MaxNodes
    /\ \E G \in {AddNode(TheGraph, Location2D, stored)} :
          /\ Nodes' = G.Nodes
          /\ Edges' = G.Edges
    /\ ret' = [op |-> "AddNode", Location2D |-> Location2D,
               id |-> AddNode_Return(TheGraph), count |-> Len(Nodes),
               status |-> "ok"]
    /\ calls' = calls + 1
    /\ UNCHANGED <<Items, Size, resident, lastFP>>

GraphAddOrSetEdge(NodeAID, NodeBID, Weight) ==
    /\ calls < MaxEdits
    /\ \E G \in {AddOrSetEdge(TheGraph, NodeAID, NodeBID, Weight)} :
          /\ Nodes' = G.Nodes
          /\ Edges' = G.Edges
    /\ ret' = [op |-> "AddOrSetEdge", NodeAID |-> NodeAID, NodeBID |-> NodeBID,
               Weight |-> Weight, before |-> Edges, status |-> "ok"]
    /\ calls' = calls + 1
    /\ UNCHANGED <<Items, Size, resident, lastFP>>

CallAddNode ==
    \E Location2D \in Positions, stored \in Positions :
        GraphAddNode(Location2D, stored)

\* The ids range over the node ids and one id on either side of them.
CallAddOrSetEdge ==
    \E a \in (0 - 1)..Len(Nodes), b \in (0 - 1)..Len(Nodes),
       w \in 0..MaxWeight : GraphAddOrSetEdge(a, b, w)

GraphNext == CallAddNode \/ CallAddOrSetEdge

SpecGraph == GraphInit /\ [][GraphNext]_vars

\* No list holds two entries with the same neighbour id.
NoDuplicates(edges) ==
    \A i \in 1..Len(edges) :
        \A k \in 1..Len(edges[i]), l \in 1..Len(edges[i]) :
            k # l => edges[i][k].NodeID # edges[i][l].NodeID

\* edges2 is edges1 with no entry added, removed or moved, and with the
\* weight w on the entries of a to b and of b to a and on no other.
OnlyOverwrites(edges1, edges2, a, b, w) ==
    /\ Len(edges2) = Len(edges1)
    /\ \A i \in 1..Len(edges1) :
          /\ Len(edges2[i]) = Len(edges1[i])
          /\ \A k \in 1..Len(edges1[i]) :
                /\ edges2[i][k].NodeID = edges1[i][k].NodeID
                /\ edges2[i][k].Weight =
                      IF (i = a + 1 /\ edges1[i][k].NodeID = b)
                            \/ (i = b + 1 /\ edges1[i][k].NodeID = a)
                      THEN w ELSE edges1[i][k].Weight

\* C12: after any sequence of AddOrSetEdge calls on valid ids, the pair
\* repeated, swapped or with NodeAID = NodeBID, every adjacency list holds
\* at most one entry per neighbour id, and a call on a pair that has an
\* edge only overwrites the weight of the entries in both lists.
C12_NoDuplicateEdges ==
    /\ NoDuplicates(Edges)
    /\ (ret.op = "AddOrSetEdge"
          /\ IsValidIndex(Nodes, ret.NodeAID) /\ IsValidIndex(Nodes, ret.NodeBID)
          /\ HasEdgeTo(ret.before[ret.NodeAID + 1], ret.NodeBID)) =>
            OnlyOverwrites(ret.before, Edges, ret.NodeAID, ret.NodeBID, ret.Weight)

\* C13: in every graph state reached through CreateGraph, AddNode and
\* AddOrSetEdge, with valid or invalid ids in any order, an entry to j with
\* weight w in the list of node i comes with an entry to i with the same
\* weight w in the list of node j.
C13_EdgesSymmetric ==
    \A i \in 1..Len(Edges) :
        \A k \in 1..Len(Edges[i]) :
            /\ IsValidIndex(Edges, Edges[i][k].NodeID)
            /\ \E l \in 1..Len(Edges[Edges[i][k].NodeID + 1]) :
                  /\ Edges[Edges[i][k].NodeID + 1][l].NodeID = i - 1
                  /\ Edges[Edges[i][k].NodeID + 1][l].Weight = Edges[i][k].Weight

\* A call on two different nodes that already had an edge of another
\* weight: the entry in the list of the second node has the new weight.
C13_Witness ==
    /\ ret.op = "AddOrSetEdge"
    /\ IsValidIndex(Nodes, ret.NodeAID) /\ IsValidIndex(Nodes, ret.NodeBID)
    /\ ret.NodeAID > ret.NodeBID
    /\ HasEdgeTo(ret.before[ret.NodeAID + 1], ret.NodeBID)
    /\ EdgeWeight(ret.before, ret.NodeBID, ret.NodeAID) # ret.Weight
    /\ EdgeWeight(Edges, ret.NodeBID, ret.NodeAID) = ret.Weight

\* C14: after every completed Add, RemoveFirst and UpdateItem, every
\* occupied slot i in 0..Size-1 holds a node whose HeapIndex is i, and no
\* node is in two occupied slots.
C14_HeapPositions ==
    ret.op \in {"Add", "RemoveFirst", "UpdateItem"} =>
        /\ ret.status = "ok"
        /\ \A i \in 0..(Size - 1) :
              /\ Items[i + 1] # NullPtr
              /\ NodeAt(Nodes, Items[i + 1]).HeapIndex = i
        /\ \A i \in 0..(Size - 1), j \in 0..(Size - 1) :
              i # j => Items[i + 1] # Items[j + 1]

\* A RemoveFirst on a full heap after which the node taken from the last
\* slot has been moved down from the root.
C14_Witness ==
    /\ ret.op = "RemoveFirst"
    /\ Size = HeapCapacity - 1
    /\ Items[Size + 1] \in resident
    /\ NodeAt(Nodes, Items[Size + 1]).HeapIndex \in 1..(Size - 1)

\* C15: after any sequence of Add and RemoveFirst calls, Contains(node) is
\* true exactly for the nodes resident in the heap (added and not yet
\* returned by RemoveFirst): only the occupied slots count.
C15_ContainsIffResident ==
    \A n \in 0..(HeapCapacity - 1) :
        Contains(HeapOf(Nodes, Items, Size), n) <=> n \in resident

\* C16: FindPathsToNodes on a graph with non-negative weights always
\* returns: the loop ends with the heap empty after as many RemoveFirst
\* calls as the graph has nodes, each node returned once.
C16_SingleSourceTerminates ==
    ret.op = "FindPathsToNodes" =>
        /\ ret.status = "ok"
        /\ ret.Size = 0
        /\ Len(ret.Removed) = Len(Nodes)
        /\ SeqToSet(ret.Removed) = NodeIDs

\* C17: in every run of FindPathsToNodes, whatever public calls came before
\* it, every node's HCost is 0.  FindPathsToNodes writes no HCost, so the
\* values it leaves are the values it ran with.
C17_SingleSourceHCostZero ==
    ret.op = "FindPathsToNodes" =>
        \A v \in NodeIDs : NodeAt(Nodes, v).HCost = 0

\* C18: AddNode(graph, position) returns the node count before the call,
\* and the node stored at that id has NodeID equal to the id and
\* Location2D equal to the position passed.
C18_AddNodeStoresPosition ==
    ret.op = "AddNode" =>
        /\ ret.id = ret.count
        /\ Len(Nodes) = ret.count + 1
        /\ Len(Edges) = Len(Nodes)
        /\ NodeAt(Nodes, ret.id).NodeID = ret.id
        /\ NodeAt(Nodes, ret.id).Location2D = ret.Location2D

\* C19: in FindPath and in FindPathsToNodes, from any working state of
\* the nodes, UpdateItem is only called on a node resident in the heap
\* whose key has not gone up, Add only on a node that is not resident while
\* a slot is free, and in FindPath no node is in the open set and in the
\* closed set at once or added to the open set twice.
C19_SearchesKeepHeapContract ==
    ret.op \in {"FindPath", "FindPathsToNodes"} => ret.breach = {}

\* C20: for valid StartNodeID and TargetNodeID, in every graph state the
\* public calls reach and for both values of bRecalculate, the walk of
\* GetPath over the ParentID links reads Graph.Nodes at valid indices only
\* and ends by reaching StartNodeID.
C20_RetraceStaysInGraph ==
    (ret.op = "GetPath"
        /\ IsValidIndex(Nodes, ret.StartID) /\ IsValidIndex(Nodes, ret.TargetID)) =>
        /\ ~ret.ub
        /\ ret.status = "ok"

====
